---- MODULE Spec2Model ----
\* A model of the autonomous-navigation telemetry backend: configuration,
\* sensor fusion, positioning, device store, proximity scan, alert builder and
\* the Socket.IO / REST entry points that drive them.
EXTENDS Integers, Sequences, FiniteSets, TLC

\* ---------------------------------------------------------------------------
\* JavaScript values.  A number is an exact rational n/d (d > 0); undefined,
\* null and NaN are values of their own, so that a comparison against a
\* missing configuration key or an arithmetic step on undefined behaves as it
\* does in the runtime instead of being assumed away.
\* ---------------------------------------------------------------------------
Undefined == [k |-> "undefined", n |-> 0, d |-> 1]

Null == [k |-> "null", n |-> 0, d |-> 1]

NaN == [k |-> "NaN", n |-> 0, d |-> 1]

Frac(n, d) == [k |-> "num", n |-> n, d |-> d]

Num(n) == Frac(n, 1)

IsNum(v) == v.k = "num"

\* a ?? b
Nullish(v) == v.k \in {"undefined", "null"}

\* !v is false exactly for the truthy numbers (0, NaN, undefined, null are falsy)
Truthy(v) == IsNum(v) /\ v.n # 0

\* a < b, a > b, a <= b: false whenever an operand converts to NaN
JsLt(a, b) == IsNum(a) /\ IsNum(b) /\ a.n * b.d < b.n * a.d

JsGt(a, b) == JsLt(b, a)

JsLe(a, b) == IsNum(a) /\ IsNum(b) /\ a.n * b.d <= b.n * a.d

JsSub(a, b) ==
    IF IsNum(a) /\ IsNum(b) THEN Frac(a.n * b.d - b.n * a.d, a.d * b.d) ELSE NaN

JsMul(a, b) ==
    IF IsNum(a) /\ IsNum(b) THEN Frac(a.n * b.n, a.d * b.d) ELSE NaN

\* value equality of two numbers (===)
JsEq(a, b) == IsNum(a) /\ IsNum(b) /\ a.n * b.d = b.n * a.d

Abs(i) == IF i < 0 THEN 0 - i ELSE i

\* obj.key and the destructuring  const { key } = obj
Prop(obj, key) == IF key \in DOMAIN obj THEN obj[key] ELSE Undefined

\* ---------------------------------------------------------------------------
\* Configuration
\* ---------------------------------------------------------------------------
config ==
    [ PORT |-> Num(3000),
      SAFETY |-> [ COLLISION_DISTANCE_METERS |-> Num(2),
                   WARNING_DISTANCE_METERS |-> Num(5),
                   MAX_SPEED_MS |-> Num(15),
                   SENSOR_CONFIDENCE_THRESHOLD |-> Frac(6, 10) ],
      FUSION |-> [ SMOOTHING_WINDOW |-> Num(5),
                   DEAD_RECKONING_MAX_DRIFT_SEC |-> Num(30),
                   ACCEL_NOISE_THRESHOLD |-> Frac(5, 100) ],
      INDOOR |-> [ RSSI_PATH_LOSS_EXPONENT |-> Num(2),
                   RSSI_MEASURED_AT_1M |-> Num(0 - 40),
                   MIN_BASE_STATIONS |-> Num(3) ],
      DEVICE_TTL_MS |-> Num(30000) ]

\* Object.assign({ PORT, CORS_ORIGIN }, base): the keys of base on top
appConfig ==
    [ key \in DOMAIN config \cup {"CORS_ORIGIN"} |->
        IF key \in DOMAIN config THEN config[key] ELSE Undefined ]

\* the names the services destructure from app.config
MAX_SAFE_SPEED_MPS == Prop(appConfig, "MAX_SAFE_SPEED_MPS")

SAFETY_DISTANCE_METERS == Prop(appConfig, "SAFETY_DISTANCE_METERS")

WARNING_DISTANCE_METERS == Prop(appConfig, "WARNING_DISTANCE_METERS")

SMOOTHING_WINDOW == Prop(appConfig, "SMOOTHING_WINDOW")

SENSOR_CONFIDENCE_THRESHOLD == Prop(appConfig, "SENSOR_CONFIDENCE_THRESHOLD")

DEVICE_TTL_MS == Prop(config, "DEVICE_TTL_MS")

DEDUP_WINDOW_MS == 3000

\* period of the prune/persist timer and of the dedup sweep timer
PRUNE_INTERVAL_MS == 10000

SWEEP_INTERVAL_MS == 10000

\* the values the specification's configuration table gives (section 6)
W == config.FUSION.SMOOTHING_WINDOW

WarningDistance == config.SAFETY.WARNING_DISTANCE_METERS

CollisionDistance == config.SAFETY.COLLISION_DISTANCE_METERS

MaxSafeSpeed == config.SAFETY.MAX_SPEED_MS

ConfidenceThreshold == config.SAFETY.SENSOR_CONFIDENCE_THRESHOLD

\* ---------------------------------------------------------------------------
\* Bounds of the model
\* ---------------------------------------------------------------------------
\* clock advances taken in one behaviour
MaxTicks == 2

\* packets and REST calls handled in one behaviour of the server
MaxOps == 3

\* packets fused in one behaviour of the fusion engine
MaxSamples == 6

\* REST requests and packets handled in one behaviour of the store's clients
MaxRequests == 3

\* requests, calls and restarts in one behaviour of the persisted store
MaxDiskOps == 3

\* I/O failures the file system may inject in one behaviour
MaxFaults == 1

\* addAlert calls in one behaviour of the alerts ring
MaxAlerts == 53

\* calls of the alert builders in one behaviour of the alert service
MaxCalls == 3

\* socket events handled with two connections open
MaxSocketOps == 4

Devs == {"A", "B"}

Sockets == {"s1"}

\* two connections open at once
SocketPair == {"s1", "s2"}

\* clock advances of the server, in ms: both sides of the device TTL are
\* reached as sums of these
Steps == {1, DEVICE_TTL_MS.n}

\* clock advances of the alert service, in ms: both sides of the dedup window,
\* a step between one and two windows, and a whole period of the sweep
AlertSteps == {1, DEDUP_WINDOW_MS, 5000, SWEEP_INTERVAL_MS}

\* ---------------------------------------------------------------------------
\* Units.  Time is in ms.  lat/lng are in micro-degrees (1e-6 deg); every
\* position of the model lies on the equator, where the Haversine formula
\* reduces to R * |dLng| and one micro-degree is 111.195 mm.  Distances and
\* speeds are exact rationals in m and m/s.
\* ---------------------------------------------------------------------------
MM_PER_MICRODEG_X1000 == 111195

\* 1 m along the equator, in micro-degrees: (1/R) * (180/pi) * 1e6 = 8.993
MICRODEG_PER_M == 9

\* ---------------------------------------------------------------------------
\* Geometry (positioning.service)
\* ---------------------------------------------------------------------------
haversineDistance(lat1, lng1, lat2, lng2) ==
    IF ~(IsNum(lat1) /\ IsNum(lng1) /\ IsNum(lat2) /\ IsNum(lng2))
    THEN NaN
    ELSE CASE lat1.n = 0 /\ lat2.n = 0 ->
              Frac((Abs(lng2.n - lng1.n) * MM_PER_MICRODEG_X1000) \div 1000, 1000)

\* cos and sin of a heading that is a multiple of 90 degrees
CosDeg(h) == CASE h = 0 -> 1 [] h = 90 -> 0 [] h = 180 -> 0 - 1 [] h = 270 -> 0

SinDeg(h) == CASE h = 0 -> 0 [] h = 90 -> 1 [] h = 180 -> 0 [] h = 270 -> 0 - 1

deadReckon(lat, lng, heading, speedMps, dtMs) ==
    IF ~(IsNum(lat) /\ IsNum(lng) /\ IsNum(heading) /\ IsNum(speedMps) /\ IsNum(dtMs))
    THEN [lat |-> NaN, lng |-> NaN]
    ELSE LET distMm == (speedMps.n * dtMs.n) \div speedMps.d
             step   == (distMm * MICRODEG_PER_M) \div 1000
         IN  [ lat |-> Num(lat.n + step * CosDeg(heading.n)),
               lng |-> Num(lng.n + step * SinDeg(heading.n)) ]

distanceBetween(stateA, stateB) ==
    haversineDistance(stateA.lat, stateA.lng, stateB.lat, stateB.lng)

\* Math.round(x * 100) / 100
Round2(x) ==
    IF IsNum(x) THEN Frac((2 * 100 * x.n + x.d) \div (2 * x.d), 100) ELSE NaN

\* ---------------------------------------------------------------------------
\* Sensor fusion (sensorFusion.service)
\* ---------------------------------------------------------------------------
RECURSIVE SumOf(_, _)
SumOf(buf, axis) ==
    IF buf = <<>> THEN 0 ELSE buf[1][axis] + SumOf(Tail(buf), axis)

RECURSIVE SumSq(_, _)
SumSq(buf, axis) ==
    IF buf = <<>> THEN 0 ELSE buf[1][axis] * buf[1][axis] + SumSq(Tail(buf), axis)

\* buf.push(reading); if (buf.length > SMOOTHING_WINDOW) buf.shift()
PushTrim(buf, reading) ==
    LET pushed == Append(buf, reading)
    IN  IF JsGt(Num(Len(pushed)), SMOOTHING_WINDOW) THEN Tail(pushed) ELSE pushed

\* the average smooth() returns over the buffer it has just pushed to
Average(buf) ==
    [ x |-> Frac(SumOf(buf, "x"), Len(buf)),
      y |-> Frac(SumOf(buf, "y"), Len(buf)),
      z |-> Frac(SumOf(buf, "z"), Len(buf)) ]

EmptyBuffers == [accel |-> <<>>, gyro |-> <<>>, mag |-> <<>>]

\* the three smooth() calls of fuseSensors on the buffers of one device
\* (EmptyBuffers when smoothingBuffers has no entry for it yet)
SmoothAll(cur, sensorData) ==
    [ accel |-> PushTrim(cur.accel, sensorData.accelerometer),
      gyro  |-> PushTrim(cur.gyro, sensorData.gyroscope),
      mag   |-> PushTrim(cur.mag, sensorData.magnetometer) ]

\* atan2(-My, Mx) in degrees, normalised by "if (heading < 0) heading += 360",
\* for an accelerometer along z (pitch = roll = 0, so Mx = mag.x, My = mag.y)
\* and a magnetometer with mag.x = 0 or mag.y = 0
computeHeading(mag, accel) ==
    CASE accel.x.n = 0 /\ accel.y.n = 0 /\ mag.y.n = 0 /\ mag.x.n >= 0 -> Num(0)
      [] accel.x.n = 0 /\ accel.y.n = 0 /\ mag.y.n = 0 /\ mag.x.n < 0 -> Num(180)
      [] accel.x.n = 0 /\ accel.y.n = 0 /\ mag.x.n = 0 /\ mag.y.n < 0 -> Num(90)
      [] accel.x.n = 0 /\ accel.y.n = 0 /\ mag.x.n = 0 /\ mag.y.n > 0 -> Num(270)

\* sqrt(x^2 + y^2 + z^2) of a vector along z
estimateSpeed(accel) ==
    CASE accel.x.n = 0 /\ accel.y.n = 0 -> Frac(Abs(accel.z.n), accel.z.d)

\* 0.5 below two samples, else clamp(1 - variance(z) / 10, 0, 1), where
\* variance = (n * sum(z^2) - sum(z)^2) / n^2
computeConfidence(bufs) ==
    LET buf == bufs.accel
        n   == Len(buf)
        v   == n * SumSq(buf, "z") - SumOf(buf, "z") * SumOf(buf, "z")
    IN  IF n < 2 THEN Frac(1, 2)
        ELSE IF v >= 10 * n * n THEN Num(0)
        ELSE Frac(10 * n * n - v, 10 * n * n)

\* buf.reduce(...) reads v.x of every entry: an entry that is undefined makes
\* it throw a TypeError
Unreadable(buf) == \E i \in 1..Len(buf) : buf[i] = Undefined

\* fuseSensors throws: one of its three smooth() calls pushes to, or finds, a
\* buffer it cannot average
fuseSensorsThrows(bufs, sensorData) ==
    \/ Unreadable(PushTrim(bufs.accel, sensorData.accelerometer))
    \/ Unreadable(PushTrim(bufs.gyro, sensorData.gyroscope))
    \/ Unreadable(PushTrim(bufs.mag, sensorData.magnetometer))

\* the buffers a throwing fuseSensors leaves behind: every smooth() call up to
\* and including the one that throws has already pushed its reading
BuffersAtThrow(bufs, sensorData) ==
    IF Unreadable(PushTrim(bufs.accel, sensorData.accelerometer))
    THEN [bufs EXCEPT !.accel = PushTrim(bufs.accel, sensorData.accelerometer)]
    ELSE IF Unreadable(PushTrim(bufs.gyro, sensorData.gyroscope))
    THEN [bufs EXCEPT !.accel = PushTrim(bufs.accel, sensorData.accelerometer),
                      !.gyro = PushTrim(bufs.gyro, sensorData.gyroscope)]
    ELSE SmoothAll(bufs, sensorData)

\* fuseSensors: the fused state and the buffers it leaves behind
fuseSensors(bufs, sensorData) ==
    LET after       == SmoothAll(bufs, sensorData)
        smoothAccel == Average(after.accel)
        smoothMag   == Average(after.mag)
        confidence  == computeConfidence(after)
    IN  [ heading      |-> computeHeading(smoothMag, smoothAccel),
          speed        |-> estimateSpeed(smoothAccel),
          confidence   |-> confidence,
          shouldUseGPS |-> JsLt(confidence, SENSOR_CONFIDENCE_THRESHOLD),
          buffers      |-> after ]

\* ---------------------------------------------------------------------------
\* Device store (models/deviceStore): this.devices is a Map, modelled as the
\* sequence of its entries in insertion order
\* ---------------------------------------------------------------------------
JsTrue == [k |-> "bool", n |-> 1, d |-> 1]

JsFalse == [k |-> "bool", n |-> 0, d |-> 1]

Fields ==
    { "deviceId", "lat", "lng", "heading", "speedMps", "confidence", "lastUpdate",
      "isBaseStation", "indoorPosition", "position", "lastUpdated", "alerts" }

\* { deviceId, alerts: [] }: every other field is missing
FreshDevice(deviceId) ==
    [ f \in Fields |->
        IF f = "deviceId" THEN deviceId ELSE IF f = "alerts" THEN <<>> ELSE Undefined ]

Has(devs, deviceId) == \E i \in 1..Len(devs) : devs[i].deviceId = deviceId

IndexOf(devs, deviceId) == CHOOSE i \in 1..Len(devs) : devs[i].deviceId = deviceId

\* devices.get(deviceId), for a present device
Get(devs, deviceId) == devs[IndexOf(devs, deviceId)]

\* devices.set(deviceId, value): a present key keeps its place
MapSet(devs, deviceId, value) ==
    IF Has(devs, deviceId)
    THEN [devs EXCEPT ![IndexOf(devs, deviceId)] = value]
    ELSE Append(devs, value)

\* devices.delete(deviceId)
MapDelete(devs, deviceId) == SelectSeq(devs, LAMBDA e : e.deviceId # deviceId)

\* the merge that starts from a fresh entry instead of the existing one
Merged_PatchOnly(existing, data, deviceId, t) ==
    [ f \in Fields |->
        IF f = "deviceId" THEN deviceId
        ELSE IF f = "lastUpdated" THEN Num(t)
        ELSE IF f \in DOMAIN data THEN data[f]
        ELSE FreshDevice(deviceId)[f] ]

\* the merge with the key spread before the patch: { ...existing, deviceId, ...data }
Merged_PatchNamesDevice(existing, data, deviceId, t) ==
    [ f \in Fields |->
        IF f = "lastUpdated" THEN Num(t)
        ELSE IF f \in DOMAIN data THEN data[f]
        ELSE IF f = "deviceId" THEN deviceId
        ELSE existing[f] ]

\* { ...existing, ...data, deviceId, lastUpdated: Date.now() }
Merged(existing, data, deviceId, t) ==
    [ f \in Fields |->
        IF f = "deviceId" THEN deviceId
        ELSE IF f = "lastUpdated" THEN Num(t)
        ELSE IF f \in DOMAIN data THEN data[f]
        ELSE existing[f] ]

\* update(deviceId, data): the stored map afterwards
StoreUpdate(devs, deviceId, data, t) ==
    LET existing == IF Has(devs, deviceId) THEN Get(devs, deviceId)
                    ELSE FreshDevice(deviceId)
    IN  MapSet(devs, deviceId, Merged(existing, data, deviceId, t))

\* the sweep with the TTL read from where the configuration does not keep it
PruneStale_TtlMissing(devs, t) ==
    SelectSeq(devs, LAMBDA e :
        ~JsLt(e.lastUpdated, JsSub(Num(t), Prop(config.FUSION, "DEVICE_TTL_MS"))))

\* the sweep that also deletes an entry exactly DEVICE_TTL_MS old (<= for <)
PruneStale_AtTtl(devs, t) ==
    SelectSeq(devs, LAMBDA e : ~JsLe(e.lastUpdated, JsSub(Num(t), DEVICE_TTL_MS)))

\* _pruneStaleDevices: delete every entry with lastUpdated < now - DEVICE_TTL_MS
PruneStale(devs, t) ==
    SelectSeq(devs, LAMBDA e : ~JsLt(e.lastUpdated, JsSub(Num(t), DEVICE_TTL_MS)))

\* getAll() / getActiveDevices()
getActiveDevices(devs) == devs

\* entries the alerts ring of a device keeps
ALERT_RING == 50

Take(seq, n) == SubSeq(seq, 1, IF Len(seq) < n THEN Len(seq) ELSE n)

\* addAlert without its slice(0, 50)
addAlert_Unbounded(devs, deviceId, alert) ==
    IF ~Has(devs, deviceId) THEN devs
    ELSE MapSet(devs, deviceId,
                [Get(devs, deviceId) EXCEPT !.alerts = << alert >> \o @])

\* addAlert(deviceId, alert): the stored map afterwards
addAlert(devs, deviceId, alert) ==
    IF ~Has(devs, deviceId) THEN devs
    ELSE MapSet(devs, deviceId,
                [Get(devs, deviceId) EXCEPT
                    !.alerts = Take(<< alert >> \o @, ALERT_RING)])

\* ---------------------------------------------------------------------------
\* Snapshot file (deviceStore: data/info.json and data/info.json.tmp)
\* ---------------------------------------------------------------------------
\* no file at the path
Absent == [k |-> "absent"]

\* a file whose write was cut short: not parseable JSON
Partial == [k |-> "partial"]

\* JSON.stringify then JSON.parse of a number, boolean, null or missing value:
\* NaN is written as null, a missing property stays missing
JsonValue(v) == IF v = NaN THEN Null ELSE v

\* JSON.stringify then JSON.parse of one device entry
JsonDevice(e) ==
    [ f \in Fields |->
        IF f \in { "deviceId", "alerts" } THEN e[f]
        ELSE IF f = "position"
             THEN IF e[f] \in { Undefined, Null } THEN e[f]
                  ELSE [ x |-> JsonValue(e[f].x), y |-> JsonValue(e[f].y) ]
        ELSE JsonValue(e[f]) ]

\* { generatedAt: Date.now(), devices: this.getAll() } as it reads back
Snapshot(devs, t) ==
    [ k           |-> "snapshot",
      generatedAt |-> t,
      devices     |-> [ i \in 1..Len(devs) |-> JsonDevice(devs[i]) ] ]

\* how one _saveToDisk() can fail: the temp file cannot be opened, its write is
\* cut short, or the rename does not happen
SaveFaults == { "open", "write", "rename" }

\* how one _loadFromDisk() can fail before it restores anything
LoadFaults == { "read" }

\* a save that writes the final path directly
SaveToDisk_InPlace(info, tmp, devs, t, fault) ==
    [ info  |-> IF fault = "open" THEN info
                ELSE IF fault = "write" THEN Partial
                ELSE Snapshot(devs, t),
      tmp   |-> tmp,
      threw |-> FALSE ]

\* a save without its try/catch
SaveToDisk_Uncaught(info, tmp, devs, t, fault) ==
    [ info  |-> IF fault = "none" THEN Snapshot(devs, t) ELSE info,
      tmp   |-> IF fault = "none" THEN Absent
                ELSE IF fault = "open" THEN tmp
                ELSE IF fault = "write" THEN Partial
                ELSE Snapshot(devs, t),
      threw |-> fault # "none" ]

\* _saveToDisk(): the two files afterwards, and whether an exception reached
\* the caller
SaveToDisk(info, tmp, devs, t, fault) ==
    [ info  |-> IF fault = "none" THEN Snapshot(devs, t) ELSE info,
      tmp   |-> IF fault = "none" THEN Absent
                ELSE IF fault = "open" THEN tmp
                ELSE IF fault = "write" THEN Partial
                ELSE Snapshot(devs, t),
      threw |-> FALSE ]

\* a load that restores the entries as they were saved
LoadFromDisk_KeepsTimestamps(info, t, fault) ==
    IF info \in { Absent, Partial } \/ fault = "read"
    THEN [ devices |-> << >>, restored |-> FALSE ]
    ELSE [ devices  |-> info.devices, restored |-> TRUE ]

\* _loadFromDisk() into the empty map of the constructor: the map afterwards,
\* and whether the load went on to save
LoadFromDisk(info, t, fault) ==
    IF info \in { Absent, Partial } \/ fault = "read"
    THEN [ devices |-> << >>, restored |-> FALSE ]
    ELSE [ devices  |-> [ i \in 1..Len(info.devices) |->
                            [info.devices[i] EXCEPT !.lastUpdated = Num(t)] ],
           restored |-> TRUE ]

\* ---------------------------------------------------------------------------
\* Positioning engine (positioning.service)
\* ---------------------------------------------------------------------------
\* existing?.lat ?? payload.gps?.lat ?? 0
FirstDefined(a, gps, field) ==
    IF ~Nullish(a) THEN a
    ELSE IF gps # Undefined /\ ~Nullish(gps[field]) THEN gps[field]
    ELSE Num(0)

\* the state object updateDevicePosition hands to deviceStore.update.
\* existing is deviceStore.get(deviceId) || {} : an object in either case, so
\* the dead-reckoning branch is taken whenever the GPS branch is not.
PositionState(devs, deviceId, payload, fusedState, t) ==
    LET existing == IF Has(devs, deviceId) THEN Get(devs, deviceId)
                    ELSE FreshDevice(deviceId)
        lat0 == FirstDefined(existing.lat, payload.gps, "lat")
        lng0 == FirstDefined(existing.lng, payload.gps, "lng")
        dt   == JsSub(Num(t), existing.lastUpdate)
        pos  == IF fusedState.shouldUseGPS /\ payload.gps # Undefined
                THEN [lat |-> payload.gps.lat, lng |-> payload.gps.lng]
                ELSE deadReckon(lat0, lng0, fusedState.heading, fusedState.speed, dt)
    IN  [ deviceId       |-> deviceId,
          lat            |-> pos.lat,
          lng            |-> pos.lng,
          heading        |-> fusedState.heading,
          speedMps       |-> fusedState.speed,
          confidence     |-> fusedState.confidence,
          lastUpdate     |-> Num(t),
          isBaseStation  |-> IF Nullish(payload.isBaseStation) THEN JsFalse
                             ELSE payload.isBaseStation,
          indoorPosition |-> Null ]

\* updateDevicePosition: the store afterwards (the persisted entry is
\* Get(updateDevicePosition(...), deviceId))
updateDevicePosition(devs, deviceId, payload, fusedState, t) ==
    StoreUpdate(devs, deviceId, PositionState(devs, deviceId, payload, fusedState, t), t)

\* ---------------------------------------------------------------------------
\* Proximity scanner (proximity.service)
\* ---------------------------------------------------------------------------
\* the classification without its 'safe' branch
Severity_WarningOnly(distM) ==
    IF JsLt(distM, CollisionDistance) THEN "collision" ELSE "warning"

\* the classification with the thresholds the configuration does hold
Severity_NestedThresholds(distM) ==
    IF JsLt(distM, CollisionDistance) THEN "collision"
    ELSE IF JsLt(distM, WarningDistance) THEN "warning"
    ELSE "safe"

Severity(distM) ==
    IF JsLt(distM, SAFETY_DISTANCE_METERS) THEN "collision"
    ELSE IF JsLt(distM, WARNING_DISTANCE_METERS) THEN "warning"
    ELSE "safe"

\* the event of the pair (devices[i], devices[j]), or nothing for a safe pair
PairEvent(a, b) ==
    LET distM == distanceBetween(a, b)
    IN  IF Severity(distM) # "safe"
        THEN << [ deviceA   |-> a.deviceId,
                  deviceB   |-> b.deviceId,
                  distanceM |-> Round2(distM),
                  severity  |-> Severity(distM) ] >>
        ELSE << >>

\* the inner loop: j = from .. devices.length
RECURSIVE ScanRow(_, _, _)
ScanRow(devs, i, j) ==
    IF j > Len(devs) THEN << >>
    ELSE PairEvent(devs[i], devs[j]) \o ScanRow(devs, i, j + 1)

\* the outer loop: i = from .. devices.length
RECURSIVE ScanFrom(_, _)
ScanFrom(devs, i) ==
    IF i > Len(devs) THEN << >>
    ELSE ScanRow(devs, i, i + 1) \o ScanFrom(devs, i + 1)

scanProximity(devs) == ScanFrom(getActiveDevices(devs), 1)

\* ---------------------------------------------------------------------------
\* Alert builder (alert.service).  Strings that are concatenated are sequences
\* of characters; recentAlerts is a Map from key to the last emission time.
\* ---------------------------------------------------------------------------
Chars(id) ==
    CASE id = "A" -> <<"A">>
      [] id = "B" -> <<"B">>
      [] id = "C" -> <<"C">>
      [] id = "A:B" -> <<"A", ":", "B">>
      [] id = "B:C" -> <<"B", ":", "C">>

CharCode(c) ==
    CASE c = ":" -> 58
      [] c = "A" -> 65
      [] c = "B" -> 66
      [] c = "C" -> 67

\* s < t in the order Array.prototype.sort() uses for strings
RECURSIVE StrLess(_, _)
StrLess(s, t) ==
    IF t = << >> THEN FALSE
    ELSE IF s = << >> THEN TRUE
    ELSE IF CharCode(s[1]) # CharCode(t[1]) THEN CharCode(s[1]) < CharCode(t[1])
    ELSE StrLess(Tail(s), Tail(t))

\* [a, b].sort().join(':')
SortedJoin(a, b) ==
    IF StrLess(Chars(b), Chars(a)) THEN Chars(b) \o <<":">> \o Chars(a)
    ELSE Chars(a) \o <<":">> \o Chars(b)

\* a dedup key that also carries the severity
ProximityKey_PerSeverity(event) ==
    <<"proximity", ":">> \o SortedJoin(event.deviceA, event.deviceB)
        \o <<":", event.severity>>

ProximityKey(event) == <<"proximity", ":">> \o SortedJoin(event.deviceA, event.deviceB)

SpeedKey(deviceId) == <<"speed", ":">> \o Chars(deviceId)

\* recentAlerts.get(key)
Last(table, key) == IF key \in DOMAIN table THEN table[key] ELSE Undefined

\* shouldEmit with the window closed one millisecond early (>= for >)
shouldEmit_AtWindowEdge(table, key, t) ==
    LET last == Last(table, key)
    IN  IF ~Truthy(last) \/ JsLe(Num(DEDUP_WINDOW_MS), JsSub(Num(t), last))
        THEN [emit |-> TRUE, table |-> (key :> Num(t)) @@ table]
        ELSE [emit |-> FALSE, table |-> table]

\* shouldEmit(key) at time t: the result and the table afterwards
shouldEmit(table, key, t) ==
    LET last == Last(table, key)
    IN  IF ~Truthy(last) \/ JsGt(JsSub(Num(t), last), Num(DEDUP_WINDOW_MS))
        THEN [emit |-> TRUE, table |-> (key :> Num(t)) @@ table]
        ELSE [emit |-> FALSE, table |-> table]

ProximityAlert(event) ==
    [ type      |-> IF event.severity = "collision" THEN "COLLISION_WARNING"
                    ELSE "PROXIMITY_WARNING",
      severity  |-> event.severity,
      deviceA   |-> event.deviceA,
      deviceB   |-> event.deviceB,
      distanceM |-> event.distanceM ]

\* buildProximityAlerts(proximityEvents) at time t: the alerts and the table
RECURSIVE buildProximityAlerts(_, _, _)
buildProximityAlerts(table, events, t) ==
    IF events = << >> THEN [alerts |-> << >>, table |-> table]
    ELSE LET r    == shouldEmit(table, ProximityKey(events[1]), t)
             rest == buildProximityAlerts(r.table, Tail(events), t)
         IN  [ alerts |-> (IF r.emit THEN << ProximityAlert(events[1]) >> ELSE << >>)
                          \o rest.alerts,
               table  |-> rest.table ]

\* deviceState.speedMps <= MAX_SAFE_SPEED_MPS : the early return of buildSpeedAlert
WithinSafeSpeed(deviceState) == JsLe(deviceState.speedMps, MAX_SAFE_SPEED_MPS)

SpeedAlert(deviceState) ==
    [ type     |-> "SPEED_EXCEEDED",
      severity |-> "warning",
      deviceId |-> deviceState.deviceId,
      speedMps |-> Round2(deviceState.speedMps),
      limitMps |-> MAX_SAFE_SPEED_MPS ]

\* buildSpeedAlert(deviceState) at time t: zero or one alert and the table
buildSpeedAlert(table, deviceState, t) ==
    IF WithinSafeSpeed(deviceState) THEN [alerts |-> << >>, table |-> table]
    ELSE LET r == shouldEmit(table, SpeedKey(deviceState.deviceId), t)
         IN  [ alerts |-> IF r.emit THEN << SpeedAlert(deviceState) >> ELSE << >>,
               table  |-> r.table ]

\* the sweep with one dedup window for its threshold
SweepTable_OneWindow(table, t) ==
    LET keep == { key \in DOMAIN table :
                    ~JsGt(JsSub(Num(t), table[key]), Num(DEDUP_WINDOW_MS)) }
    IN  [ key \in keep |-> table[key] ]

\* the sweep with its comparison turned round (< for >)
SweepTable_Inverted(table, t) ==
    LET keep == { key \in DOMAIN table :
                    ~JsLt(JsSub(Num(t), table[key]), Num(DEDUP_WINDOW_MS * 2)) }
    IN  [ key \in keep |-> table[key] ]

\* the sweep: delete every entry with now - ts > DEDUP_WINDOW_MS * 2
SweepTable(table, t) ==
    LET keep == { key \in DOMAIN table :
                    ~JsGt(JsSub(Num(t), table[key]), Num(DEDUP_WINDOW_MS * 2)) }
    IN  [ key \in keep |-> table[key] ]

\* ---------------------------------------------------------------------------
\* Dispatcher (sockets/realtime.socket) and REST routes (navigation.routes)
\* ---------------------------------------------------------------------------
\* a missing deviceId (undefined, null or the empty string: all falsy)
NoId == ""

\* the payload of 'position:update'
PositionEvent(deviceState) ==
    [ event         |-> "position:update",
      deviceId      |-> deviceState.deviceId,
      lat           |-> deviceState.lat,
      lng           |-> deviceState.lng,
      heading       |-> deviceState.heading,
      speedMps      |-> deviceState.speedMps,
      confidence    |-> deviceState.confidence,
      indoorPos     |-> deviceState.indoorPosition,
      isBaseStation |-> deviceState.isBaseStation,
      timestamp     |-> deviceState.lastUpdate ]

AlertEvent(alert) == [event |-> "alert", alert |-> alert]

RECURSIVE AlertEvents(_)
AlertEvents(alerts) ==
    IF alerts = << >> THEN << >>
    ELSE << AlertEvent(alerts[1]) >> \o AlertEvents(Tail(alerts))

\* an outgoing stream that puts the newest event first
Broadcast_Front(stream, event) == << event >> \o stream

\* io.emit(...): the event joins the outgoing stream behind the earlier ones
Broadcast(stream, event) == Append(stream, event)

RECURSIVE BroadcastAll(_, _)
BroadcastAll(stream, events) ==
    IF events = << >> THEN stream
    ELSE BroadcastAll(Broadcast(stream, events[1]), Tail(events))

\* the handler with the speed alert emitted before the position broadcast
HandlerEvents_SpeedFirst(stream, deviceState, proximityAlerts, speedAlerts) ==
    BroadcastAll(
        BroadcastAll(BroadcastAll(stream, AlertEvents(speedAlerts)),
                     << PositionEvent(deviceState) >>),
        AlertEvents(proximityAlerts))

\* steps 3 to 5 of the 'sensor:update' handler on the outgoing stream:
\* position:update, then the proximity alerts, then the speed alert
HandlerEvents(stream, deviceState, proximityAlerts, speedAlerts) ==
    BroadcastAll(
        BroadcastAll(Broadcast(stream, PositionEvent(deviceState)),
                     AlertEvents(proximityAlerts)),
        AlertEvents(speedAlerts))

\* the minimal fused state POST /navigation/external/update builds
RestFusedState(body) ==
    [ heading      |-> IF Truthy(body.heading) THEN body.heading ELSE Num(0),
      speed        |-> IF Truthy(body.speed) THEN body.speed ELSE Num(0),
      confidence   |-> IF Nullish(body.confidence) THEN Num(1) ELSE body.confidence,
      shouldUseGPS |-> body.gps # Undefined ]

\* ---------------------------------------------------------------------------
\* State
\* ---------------------------------------------------------------------------
VARIABLES
    now,               \* Date.now(), ms
    ticks,             \* clock advances taken so far
    ops,               \* packets / requests / calls the behaviour may still handle
    devices,           \* deviceStore.devices
    smoothingBuffers,  \* sensorFusion: deviceId -> { accel, gyro, mag }
    recentAlerts,      \* alert.service: key -> last emitted timestamp
    socketDevice,      \* socket.deviceId of each connection (NoId: not set)
    pruneDue,          \* when the store's setInterval fires next
    sweepDue,          \* when the dedup sweep's setInterval fires next
    outbox,            \* every event emitted so far, in emission order
    infoFile,          \* data/info.json: Absent, Partial or a Snapshot
    tmpFile,           \* data/info.json.tmp, likewise
    startedAt,         \* Date.now() when the running process constructed its store
    faults,            \* I/O failures the file system may still inject
    lastSave,          \* history: how the last handler's _saveToDisk() went
    lastOp,            \* history: the handler that ran last and what it saw
    accepted,          \* history: per device, the states its accepted packets produced
    lastTrue,          \* history: key -> time of the last shouldEmit that returned true
    pairAlerted,       \* history: {a, b} -> time and severity of the pair's last alert
    samplesSeen        \* history: packets fused per device since its buffers were created

vars ==
    << now, ticks, ops, devices, smoothingBuffers, recentAlerts, socketDevice,
       pruneDue, sweepDue, outbox, lastOp, accepted, lastTrue, pairAlerted,
       samplesSeen, infoFile, tmpFile, startedAt, faults, lastSave >>

OpRecord(op, deviceId) ==
    [ op       |-> op,
      deviceId |-> deviceId,
      at       |-> now,         \* Date.now() when the handler ran
      gps      |-> Undefined,   \* payload.gps of the packet
      useGps   |-> FALSE,       \* fusedState.shouldUseGPS
      conf     |-> Undefined,   \* fusedState.confidence
      scan     |-> << >>,       \* what scanProximity() returned / the events passed in
      alerts   |-> << >>,       \* what the alert builders returned
      calls    |-> << >>,       \* the shouldEmit calls made, in order
      removed  |-> {},          \* deviceIds / keys a timer removed
      pairs    |-> pairAlerted, \* pairAlerted when the handler started
      threw    |-> FALSE,       \* the handler ended by throwing to its caller
      fresh    |-> FALSE,       \* the store had no entry for deviceId when it started
      patch    |-> << >>,       \* the data handed to deviceStore.update, if any
      status   |-> 0,           \* the HTTP status answered, for a REST handler
      stated   |-> Undefined,   \* isBaseStation as the payload or body states it
      mark     |-> Len(outbox) ]  \* length of outbox when the handler started

\* the events the last handler emitted
emitted == SubSeq(outbox, lastOp.mark + 1, Len(outbox))

\* the shouldEmit calls of one handler, each with what it saw and did
RECURSIVE CallLog(_, _, _, _)
CallLog(table, seen, keys, t) ==
    IF keys = << >> THEN << >>
    ELSE LET key == keys[1]
             r   == shouldEmit(table, key, t)
             rec == [ key        |-> key,
                      at         |-> t,
                      had        |-> key \in DOMAIN table,
                      prevTrue   |-> Last(seen, key),
                      emit       |-> r.emit,
                      entryAfter |-> Last(r.table, key),
                      unchanged  |-> r.table = table ]
         IN  << rec >> \o CallLog(r.table,
                                  IF r.emit THEN (key :> Num(t)) @@ seen ELSE seen,
                                  Tail(keys), t)

RECURSIVE SeenAfter(_, _)
SeenAfter(seen, log) ==
    IF log = << >> THEN seen
    ELSE SeenAfter(IF log[1].emit THEN (log[1].key :> Num(log[1].at)) @@ seen ELSE seen,
                   Tail(log))

\* pairAlerted after the proximity alerts of one handler
RECURSIVE PairsAfter(_, _, _)
PairsAfter(pairs, alerts, t) ==
    IF alerts = << >> THEN pairs
    ELSE PairsAfter(({alerts[1].deviceA, alerts[1].deviceB}
                        :> [at |-> t, severity |-> alerts[1].severity]) @@ pairs,
                    Tail(alerts), t)

RECURSIVE KeysOf(_)
KeysOf(events) ==
    IF events = << >> THEN << >> ELSE << ProximityKey(events[1]) >> \o KeysOf(Tail(events))

\* ---------------------------------------------------------------------------
\* Inputs
\* ---------------------------------------------------------------------------
Vec(x, y, z) == [x |-> x, y |-> y, z |-> z]

\* accelerometer readings, m/s^2, along z: 10 is below the speed limit of 15
\* and 20 above it; their mean is 15 and their variance 25
Accels(deviceId) ==
    IF deviceId = "A" THEN { Vec(0, 0, 10), Vec(0, 0, 20) } ELSE { Vec(0, 0, 10) }

\* a magnetometer reading that gives heading 90 (east): positions stay on the equator
MagEast == Vec(0, 0 - 40, 0)

\* the GPS fix a device reports: A at (0, 0), B at (0, 0.00003), about 3.3 m east
Fix(deviceId) ==
    [ lat |-> Num(0), lng |-> IF deviceId = "B" THEN Num(30) ELSE Num(0) ]

\* a fix at (0, 0.00009), about 10 m east of A
FarFix == [lat |-> Num(0), lng |-> Num(90)]

\* what a socket packet carries as gps
GpsChoices(deviceId) == IF deviceId = "A" THEN {Undefined, Fix("A")} ELSE {Fix(deviceId)}

\* what a REST body carries as gps
RestGpsChoices(deviceId) == IF deviceId = "B" THEN {Fix("B"), FarFix} ELSE {Fix(deviceId)}

\* a proximity event as scanProximity shapes it
ScanEvent(a, b, severity) ==
    [ deviceA   |-> a,
      deviceB   |-> b,
      distanceM |-> IF severity = "collision" THEN Frac(150, 100) ELSE Frac(334, 100),
      severity  |-> severity ]

\* scan results handed to buildProximityAlerts: one pair as a warning, the
\* same pair as a collision in either orientation, and two pairs at once
AlertInputs ==
    { << ScanEvent("A", "B", "warning") >>,
      << ScanEvent("A", "B", "collision") >>,
      << ScanEvent("B", "A", "collision") >>,
      << ScanEvent("A", "B", "warning"), ScanEvent("A", "C", "collision") >> }

\* deviceIds as clients may choose them: any string, a ':' included
KeyIds == {"A", "C", "A:B", "B:C"}

\* scan results of one pair each, over those ids, in either orientation
KeyInputs == { << ScanEvent(a, b, "warning") >> : a, b \in KeyIds } \
                 { << ScanEvent(a, a, "warning") >> : a \in KeyIds }

Packet(deviceId, accel, gps) ==
    [ deviceId      |-> deviceId,
      accelerometer |-> accel,
      gyroscope     |-> Vec(0, 0, 0),
      magnetometer  |-> MagEast,
      gps           |-> gps,
      isBaseStation |-> Undefined ]

\* the well-formed packets the devices send
Packets ==
    UNION { { Packet(d, a, g) : a \in Accels(d), g \in GpsChoices(d) } : d \in Devs }

\* a packet of A without its accelerometer vector
MalformedPackets == { Packet("A", Undefined, Undefined) }

RestBody(deviceId, gps) ==
    [ deviceId      |-> deviceId,
      gps           |-> gps,
      heading       |-> Undefined,
      speed         |-> Undefined,
      confidence    |-> Undefined,
      isBaseStation |-> Undefined ]

\* bodies of POST /navigation/external/update sent by the store's clients: A
\* as a base station at its fix, A with a heading, a speed and a confidence of
\* the sender's choosing, B at its fix 3.3 m from A
UpdateBodies ==
    { [RestBody("A", Fix("A")) EXCEPT !.isBaseStation = JsTrue],
      [RestBody("A", Fix("A")) EXCEPT !.heading = Num(400), !.speed = Num(0 - 1),
                                      !.confidence = Num(2)],
      RestBody("B", Fix("B")) }

\* bodies of POST /navigation/register: A as a base station with a known
\* position, B as a plain device
RegisterBodies ==
    { [deviceId |-> "A", isBaseStation |-> JsTrue,
       knownPosition |-> [x |-> Num(0), y |-> Num(0)]],
      [deviceId |-> "B", isBaseStation |-> Undefined, knownPosition |-> Undefined] }

\* ---------------------------------------------------------------------------
\* Init: a server that has just started with no snapshot on disk
\* ---------------------------------------------------------------------------
BootOn(sockets, budget, ioFaults) ==
    /\ now = 1
    /\ ticks = 0
    /\ ops = budget
    /\ devices = << >>
    /\ smoothingBuffers = << >>
    /\ recentAlerts = << >>
    /\ socketDevice = [s \in sockets |-> NoId]
    /\ pruneDue = 1 + PRUNE_INTERVAL_MS
    /\ sweepDue = 1 + SWEEP_INTERVAL_MS
    /\ outbox = << >>
    /\ accepted = [d \in Devs |-> << >>]
    /\ lastTrue = << >>
    /\ pairAlerted = << >>
    /\ samplesSeen = [d \in Devs |-> 0]
    /\ infoFile = Absent
    /\ tmpFile = Absent
    /\ startedAt = 1
    /\ faults = ioFaults
    /\ lastSave = [fault |-> "none", threw |-> FALSE]
    /\ lastOp = [OpRecord("start", NoId) EXCEPT !.mark = 0]

\* one connection at a time
BootWith(budget, ioFaults) == BootOn(Sockets, budget, ioFaults)

\* a file system that does not fail
Boot(budget) == BootWith(budget, 0)

Init == Boot(MaxOps)

\* the alert service alone, the fusion engine alone
InitAlert == Boot(MaxCalls)

InitFusion == Boot(MaxSamples)

\* the store and its REST clients
InitStore == Boot(MaxRequests)

\* the persisted store on a file system that may fail
InitDisk == BootWith(MaxDiskOps, MaxFaults)

\* two connections open at once
InitSockets == BootOn(SocketPair, MaxSocketOps, 0)

\* the alerts ring of the store
InitRing == Boot(MaxAlerts)

\* ---------------------------------------------------------------------------
\* Actions.  Every handler is synchronous, so it runs to completion as one step
\* of the event loop, the store's save included.
\* ---------------------------------------------------------------------------
\* one more packet, request or call is taken from the behaviour's budget
Handled == ops > 0 /\ ops' = ops - 1

\* the handler does not reach _saveToDisk()
NoSave ==
    /\ lastSave' = [fault |-> "none", threw |-> FALSE]
    /\ UNCHANGED << infoFile, tmpFile, startedAt, faults >>

\* the failures the file system may inject into the next file operation
FaultChoices(kinds) == { "none" } \cup (IF faults > 0 THEN kinds ELSE {})

\* the handler's _saveToDisk() of the map devs at time t
Persist(devs, t) ==
    \E fault \in FaultChoices(SaveFaults) :
    \E saved \in { SaveToDisk(infoFile, tmpFile, devs, t, fault) } :
        /\ infoFile' = saved.info
        /\ tmpFile' = saved.tmp
        /\ faults' = IF fault = "none" THEN faults ELSE faults - 1
        /\ lastSave' = [fault |-> fault, threw |-> saved.threw]
        /\ UNCHANGED startedAt

\* the clock advances between two turns of the event loop
Tick(dt) ==
    /\ ticks < MaxTicks
    /\ now' = now + dt
    /\ ticks' = ticks + 1
    /\ UNCHANGED << ops, devices, smoothingBuffers, recentAlerts, socketDevice, pruneDue,
                    sweepDue, outbox, lastOp, accepted, lastTrue, pairAlerted, samplesSeen,
                    infoFile, tmpFile, startedAt, faults, lastSave >>

\* socket.on('register')
Register(s, deviceId) ==
    /\ Handled
    /\ socketDevice' = [socketDevice EXCEPT ![s] = deviceId]
    /\ outbox' = Broadcast(outbox,
                           [event |-> "registered", deviceId |-> deviceId, to |-> s])
    /\ lastOp' = OpRecord("register", deviceId)
    /\ NoSave
    /\ UNCHANGED << now, ticks, devices, smoothingBuffers, recentAlerts,
                    pruneDue, sweepDue, accepted, lastTrue, pairAlerted, samplesSeen >>

\* socket.on('sensor:update') for a packet without a deviceId: ignored
DropPacket(payload) ==
    /\ Handled
    /\ payload.deviceId = NoId
    /\ lastOp' = OpRecord("sensor:drop", NoId)
    /\ NoSave
    /\ UNCHANGED << now, ticks, devices, smoothingBuffers, recentAlerts, socketDevice,
                    pruneDue, sweepDue, outbox, accepted, lastTrue, pairAlerted, samplesSeen >>

\* the buffers fuseSensors finds for a device
BuffersOf(deviceId) ==
    IF deviceId \in DOMAIN smoothingBuffers THEN smoothingBuffers[deviceId]
    ELSE EmptyBuffers

\* socket.on('sensor:update') for a packet with a deviceId, when fuseSensors
\* throws: the handler stops there, nothing catches the TypeError
SensorUpdateThrows(payload) ==
    /\ Handled
    /\ payload.deviceId # NoId
    /\ fuseSensorsThrows(BuffersOf(payload.deviceId), payload)
    /\ smoothingBuffers' =
           (payload.deviceId :> BuffersAtThrow(BuffersOf(payload.deviceId), payload))
               @@ smoothingBuffers
    /\ lastOp' = [ OpRecord("sensor:throw", payload.deviceId) EXCEPT
                     !.gps = payload.gps,
                     !.threw = TRUE,
                     !.fresh = ~Has(devices, payload.deviceId) ]
    /\ NoSave
    /\ UNCHANGED << now, ticks, devices, recentAlerts, socketDevice, pruneDue, sweepDue,
                    outbox, accepted, lastTrue, pairAlerted, samplesSeen >>

\* socket.on('sensor:update') for a packet with a deviceId
SensorUpdate(payload) ==
    /\ Handled
    /\ payload.deviceId # NoId
    /\ ~fuseSensorsThrows(BuffersOf(payload.deviceId), payload)
    /\ \E fusedState \in
           { fuseSensors(IF payload.deviceId \in DOMAIN smoothingBuffers
                         THEN smoothingBuffers[payload.deviceId] ELSE EmptyBuffers,
                         payload) } :
       \E stored \in
           { updateDevicePosition(devices, payload.deviceId, payload, fusedState, now) } :
       \E deviceState \in { Get(stored, payload.deviceId) } :
       \E events \in { scanProximity(stored) } :
       \E prox \in { buildProximityAlerts(recentAlerts, events, now) } :
       \E speed \in { buildSpeedAlert(prox.table, deviceState, now) } :
       \E log \in
           { CallLog(recentAlerts, lastTrue,
                     KeysOf(events) \o (IF WithinSafeSpeed(deviceState) THEN << >>
                                        ELSE << SpeedKey(payload.deviceId) >>),
                     now) } :
           /\ smoothingBuffers' =
                  (payload.deviceId :> fusedState.buffers) @@ smoothingBuffers
           /\ devices' = stored
           /\ Persist(stored, now)
           /\ recentAlerts' = speed.table
           /\ outbox' = HandlerEvents(outbox, deviceState, prox.alerts, speed.alerts)
           /\ lastOp' = [ OpRecord("sensor:update", payload.deviceId) EXCEPT
                            !.gps = payload.gps,
                            !.stated = payload.isBaseStation,
                            !.useGps = fusedState.shouldUseGPS,
                            !.conf = fusedState.confidence,
                            !.fresh = ~Has(devices, payload.deviceId),
                            !.patch = PositionState(devices, payload.deviceId, payload,
                                                    fusedState, now),
                            !.scan = events,
                            !.alerts = prox.alerts \o speed.alerts,
                            !.calls = log ]
           /\ accepted' = [accepted EXCEPT ![payload.deviceId] = Append(@, deviceState)]
           /\ lastTrue' = SeenAfter(lastTrue, log)
           /\ pairAlerted' = PairsAfter(pairAlerted, prox.alerts, now)
           /\ samplesSeen' = [samplesSeen EXCEPT ![payload.deviceId] = @ + 1]
    /\ UNCHANGED << now, ticks, socketDevice, pruneDue, sweepDue >>

\* a disconnect handler that removes the device and forgets clearDevice()
Disconnect_KeepsBuffers(s) ==
    LET deviceId == socketDevice[s]
    IN  /\ Handled
        /\ IF deviceId # NoId
           THEN /\ devices' = MapDelete(devices, deviceId)
                /\ Persist(MapDelete(devices, deviceId), now)
                /\ outbox' = Broadcast(outbox,
                                       [event |-> "device:left", deviceId |-> deviceId])
           ELSE UNCHANGED << devices, outbox >> /\ NoSave
        /\ socketDevice' = [socketDevice EXCEPT ![s] = NoId]
        /\ lastOp' = OpRecord("disconnect", deviceId)
        /\ UNCHANGED << now, ticks, recentAlerts, pruneDue, sweepDue, smoothingBuffers,
                        accepted, lastTrue, pairAlerted, samplesSeen >>

\* a disconnect handler that announces the departure and leaves the device
\* in the store
Disconnect_KeepsDevice(s) ==
    LET deviceId == socketDevice[s]
    IN  /\ Handled
        /\ IF deviceId # NoId
           THEN /\ smoothingBuffers' =
                       [d \in DOMAIN smoothingBuffers \ {deviceId} |-> smoothingBuffers[d]]
                /\ outbox' = Broadcast(outbox,
                                       [event |-> "device:left", deviceId |-> deviceId])
                /\ samplesSeen' = [samplesSeen EXCEPT ![deviceId] = 0]
           ELSE UNCHANGED << smoothingBuffers, outbox, samplesSeen >>
        /\ NoSave
        /\ socketDevice' = [socketDevice EXCEPT ![s] = NoId]
        /\ lastOp' = OpRecord("disconnect", deviceId)
        /\ UNCHANGED << now, ticks, devices, recentAlerts, pruneDue, sweepDue,
                        accepted, lastTrue, pairAlerted >>

\* socket.on('disconnect'); the slot then stands for a new connection
Disconnect(s) ==
    LET deviceId == socketDevice[s]
    IN  /\ Handled
        /\ IF deviceId # NoId
           THEN /\ devices' = MapDelete(devices, deviceId)
                /\ Persist(MapDelete(devices, deviceId), now)
                /\ smoothingBuffers' =
                       [d \in DOMAIN smoothingBuffers \ {deviceId} |-> smoothingBuffers[d]]
                /\ outbox' = Broadcast(outbox,
                                       [event |-> "device:left", deviceId |-> deviceId])
                /\ samplesSeen' = [samplesSeen EXCEPT ![deviceId] = 0]
           ELSE UNCHANGED << devices, smoothingBuffers, outbox, samplesSeen >> /\ NoSave
        /\ socketDevice' = [socketDevice EXCEPT ![s] = NoId]
        /\ lastOp' = OpRecord("disconnect", deviceId)
        /\ UNCHANGED << now, ticks, recentAlerts, pruneDue, sweepDue,
                        accepted, lastTrue, pairAlerted >>

\* POST /navigation/external/update (the first handler registered for the path)
PostExternalUpdate(body) ==
    /\ Handled
    /\ body.deviceId # NoId
    /\ devices' = updateDevicePosition(devices, body.deviceId, body,
                                       RestFusedState(body), now)
    /\ Persist(devices', now)
    /\ lastOp' = [ OpRecord("rest:update", body.deviceId) EXCEPT
                     !.gps = body.gps,
                     !.status = 200,
                     !.stated = body.isBaseStation,
                     !.fresh = ~Has(devices, body.deviceId),
                     !.patch = PositionState(devices, body.deviceId, body,
                                             RestFusedState(body), now),
                     !.useGps = RestFusedState(body).shouldUseGPS,
                     !.conf = RestFusedState(body).confidence ]
    /\ UNCHANGED << now, ticks, smoothingBuffers, recentAlerts, socketDevice,
                    pruneDue, sweepDue, outbox, accepted, lastTrue, pairAlerted, samplesSeen >>

\* POST /navigation/external/update with a body that has no deviceId
PostExternalUpdateRejected(body) ==
    /\ Handled
    /\ body.deviceId = NoId
    /\ lastOp' = [OpRecord("rest:reject", NoId) EXCEPT !.status = 400]
    /\ NoSave
    /\ UNCHANGED << now, ticks, devices, smoothingBuffers, recentAlerts, socketDevice,
                    pruneDue, sweepDue, outbox, accepted, lastTrue, pairAlerted, samplesSeen >>

\* the state POST /navigation/register hands to deviceStore.update
RegisterState(body) ==
    [ deviceId      |-> body.deviceId,
      isBaseStation |-> IF body.isBaseStation = Undefined THEN JsFalse
                        ELSE body.isBaseStation,
      position      |-> IF body.knownPosition = Undefined THEN Null
                        ELSE body.knownPosition ]

\* POST /navigation/register with a deviceId
PostRegister(body) ==
    /\ Handled
    /\ body.deviceId # NoId
    /\ devices' = StoreUpdate(devices, body.deviceId, RegisterState(body), now)
    /\ Persist(devices', now)
    /\ lastOp' = [ OpRecord("rest:register", body.deviceId) EXCEPT
                     !.status = 200,
                     !.stated = body.isBaseStation,
                     !.fresh = ~Has(devices, body.deviceId),
                     !.patch = RegisterState(body) ]
    /\ UNCHANGED << now, ticks, smoothingBuffers, recentAlerts, socketDevice,
                    pruneDue, sweepDue, outbox, accepted, lastTrue, pairAlerted,
                    samplesSeen >>

\* deviceStore.update called through the store's export
UpdateCall(deviceId, data) ==
    /\ Handled
    /\ devices' = StoreUpdate(devices, deviceId, data, now)
    /\ Persist(devices', now)
    /\ lastOp' = [ OpRecord("store:update", deviceId) EXCEPT
                     !.fresh = ~Has(devices, deviceId),
                     !.patch = data ]
    /\ UNCHANGED << now, ticks, smoothingBuffers, recentAlerts, socketDevice,
                    pruneDue, sweepDue, outbox, accepted, lastTrue, pairAlerted,
                    samplesSeen >>

\* DELETE /navigation/device/:id
DeleteDevice(deviceId) ==
    /\ Handled
    /\ devices' = MapDelete(devices, deviceId)
    /\ Persist(devices', now)
    /\ lastOp' = [OpRecord("rest:delete", deviceId) EXCEPT !.status = 200]
    /\ UNCHANGED << now, ticks, smoothingBuffers, recentAlerts, socketDevice,
                    pruneDue, sweepDue, outbox, accepted, lastTrue, pairAlerted,
                    samplesSeen >>

\* GET /navigation/proximity, GET /dashboard/alerts
GetProximity ==
    /\ Handled
    /\ lastOp' = [ OpRecord("rest:proximity", NoId) EXCEPT
                     !.scan = scanProximity(devices), !.status = 200 ]
    /\ NoSave
    /\ UNCHANGED << now, ticks, devices, smoothingBuffers, recentAlerts, socketDevice,
                    pruneDue, sweepDue, outbox, accepted, lastTrue, pairAlerted, samplesSeen >>

\* the store's timer: _pruneStaleDevices(), then _saveToDisk()
PruneTimer ==
    /\ now >= pruneDue
    /\ devices' = PruneStale(devices, now)
    /\ Persist(devices', now)
    /\ pruneDue' = now + PRUNE_INTERVAL_MS
    /\ lastOp' = [ OpRecord("prune", NoId) EXCEPT
                     !.removed = { devices[i].deviceId : i \in 1..Len(devices) }
                                 \ { devices'[i].deviceId : i \in 1..Len(devices') } ]
    /\ UNCHANGED << now, ticks, ops, smoothingBuffers, recentAlerts, socketDevice,
                    sweepDue, outbox, accepted, lastTrue, pairAlerted, samplesSeen >>

\* the alert a caller hands to addAlert: numbered one above the newest alert
\* the device's ring holds
NextAlertFor(deviceId) ==
    [ id |-> IF Has(devices, deviceId) /\ Get(devices, deviceId).alerts # << >>
             THEN Get(devices, deviceId).alerts[1].id + 1
             ELSE 1 ]

\* deviceStore.addAlert called through the store's export
AddAlert(deviceId, alert) ==
    /\ Handled
    /\ devices' = addAlert(devices, deviceId, alert)
    /\ lastOp' = [ OpRecord("store:addAlert", deviceId) EXCEPT
                     !.fresh = ~Has(devices, deviceId),
                     !.alerts = << alert >> ]
    /\ NoSave
    /\ UNCHANGED << now, ticks, smoothingBuffers, recentAlerts, socketDevice,
                    pruneDue, sweepDue, outbox, accepted, lastTrue, pairAlerted,
                    samplesSeen >>

\* the process stops (without running any handler) and is started again: the
\* services' module state is empty, the store's constructor loads the snapshot
\* and both timers start anew
Restart ==
    /\ Handled
    /\ \E fault \in FaultChoices(IF infoFile = Absent THEN {}
                                  ELSE LoadFaults \cup SaveFaults) :
       \E loaded \in { LoadFromDisk(infoFile, now, fault) } :
       \E saved \in
           { IF loaded.restored
             THEN SaveToDisk(infoFile, tmpFile, loaded.devices, now, fault)
             ELSE [info |-> infoFile, tmp |-> tmpFile, threw |-> FALSE] } :
           /\ devices' = loaded.devices
           /\ infoFile' = saved.info
           /\ tmpFile' = saved.tmp
           /\ faults' = IF fault = "none" THEN faults ELSE faults - 1
           /\ lastSave' = [fault |-> fault, threw |-> saved.threw]
           /\ lastOp' = [ OpRecord("restart", NoId) EXCEPT
                            !.removed = { devices[i].deviceId : i \in 1..Len(devices) }
                                        \ { loaded.devices[i].deviceId :
                                               i \in 1..Len(loaded.devices) } ]
    /\ startedAt' = now
    /\ smoothingBuffers' = << >>
    /\ recentAlerts' = << >>
    /\ socketDevice' = [s \in Sockets |-> NoId]
    /\ pruneDue' = now + PRUNE_INTERVAL_MS
    /\ sweepDue' = now + SWEEP_INTERVAL_MS
    /\ lastTrue' = << >>
    /\ pairAlerted' = << >>
    /\ samplesSeen' = [d \in Devs |-> 0]
    /\ UNCHANGED << now, ticks, outbox, accepted >>

\* the alert service's timer: the dedup sweep
SweepTimer ==
    /\ now >= sweepDue
    /\ recentAlerts' = SweepTable(recentAlerts, now)
    /\ sweepDue' = now + SWEEP_INTERVAL_MS
    /\ lastOp' = [ OpRecord("sweep", NoId) EXCEPT
                     !.removed = DOMAIN recentAlerts \ DOMAIN recentAlerts' ]
    /\ NoSave
    /\ UNCHANGED << now, ticks, ops, devices, smoothingBuffers, socketDevice,
                    pruneDue, outbox, accepted, lastTrue, pairAlerted, samplesSeen >>

\* the alert service called through its exports
CallBuildProximityAlerts(events) ==
    /\ Handled
    /\ \E r \in { buildProximityAlerts(recentAlerts, events, now) } :
       \E log \in { CallLog(recentAlerts, lastTrue, KeysOf(events), now) } :
           /\ recentAlerts' = r.table
           /\ lastOp' = [ OpRecord("buildProximityAlerts", NoId) EXCEPT
                            !.scan = events, !.alerts = r.alerts, !.calls = log ]
           /\ lastTrue' = SeenAfter(lastTrue, log)
           /\ pairAlerted' = PairsAfter(pairAlerted, r.alerts, now)
    /\ NoSave
    /\ UNCHANGED << now, ticks, devices, smoothingBuffers, socketDevice,
                    pruneDue, sweepDue, outbox, accepted, samplesSeen >>

CallBuildSpeedAlert(deviceState) ==
    /\ Handled
    /\ \E r \in { buildSpeedAlert(recentAlerts, deviceState, now) } :
       \E log \in
           { CallLog(recentAlerts, lastTrue,
                     IF WithinSafeSpeed(deviceState) THEN << >>
                     ELSE << SpeedKey(deviceState.deviceId) >>, now) } :
           /\ recentAlerts' = r.table
           /\ lastOp' = [ OpRecord("buildSpeedAlert", deviceState.deviceId) EXCEPT
                            !.alerts = r.alerts, !.calls = log ]
           /\ lastTrue' = SeenAfter(lastTrue, log)
    /\ NoSave
    /\ UNCHANGED << now, ticks, devices, smoothingBuffers, socketDevice,
                    pruneDue, sweepDue, outbox, accepted, pairAlerted, samplesSeen >>

\* ---------------------------------------------------------------------------
\* Specifications
\* ---------------------------------------------------------------------------
\* the server: sockets, REST routes and timers
Next ==
    \/ \E dt \in Steps : Tick(dt)
    \/ \E s \in Sockets, d \in Devs : Register(s, d)
    \/ \E s \in Sockets : Disconnect(s)
    \/ DropPacket(Packet(NoId, Vec(0, 0, 10), Undefined))
    \/ \E payload \in Packets : SensorUpdate(payload)
    \/ \E payload \in Packets \cup MalformedPackets : SensorUpdateThrows(payload)
    \/ \E d \in Devs :
          \E g \in RestGpsChoices(d) : PostExternalUpdate(RestBody(d, g))
    \/ GetProximity
    \/ PruneTimer
    \/ SweepTimer

Spec == Init /\ [][Next]_vars

\* the alert service on its own: its two builders, the clock and its sweep
NextAlert ==
    \/ \E dt \in AlertSteps : Tick(dt)
    \/ \E events \in AlertInputs : CallBuildProximityAlerts(events)
    \/ \E v \in {10, 20} :
          CallBuildSpeedAlert([FreshDevice("A") EXCEPT !.speedMps = Num(v)])
    \/ SweepTimer

SpecAlert == InitAlert /\ [][NextAlert]_vars

\* the alert service with deviceIds that contain the separator of its keys
NextKeys ==
    \/ \E dt \in AlertSteps : Tick(dt)
    \/ \E events \in KeyInputs : CallBuildProximityAlerts(events)
    \/ \E id \in KeyIds :
          CallBuildSpeedAlert([FreshDevice(id) EXCEPT !.speedMps = Num(20)])
    \/ SweepTimer

SpecKeys == InitAlert /\ [][NextKeys]_vars

\* two connections that register, send packets and close
NextSockets ==
    \/ \E s \in SocketPair, d \in Devs : Register(s, d)
    \/ \E d \in Devs : SensorUpdate(Packet(d, Vec(0, 0, 10), Undefined))
    \/ \E s \in SocketPair : Disconnect(s)

SpecSockets == InitSockets /\ [][NextSockets]_vars

\* the fusion engine under a stream of packets, with connections that come and go
NextFusion ==
    \/ \E d \in Devs : \E a \in Accels(d) : SensorUpdate(Packet(d, a, Undefined))
    \/ \E s \in Sockets : Register(s, "A")
    \/ \E s \in Sockets : Disconnect(s)

SpecFusion == InitFusion /\ [][NextFusion]_vars

\* the store under its REST clients, one device's packets and the prune timer
NextStore ==
    \/ \E dt \in Steps : Tick(dt)
    \/ \E body \in RegisterBodies : PostRegister(body)
    \/ \E body \in UpdateBodies : PostExternalUpdate(body)
    \/ PostExternalUpdateRejected(RestBody(NoId, Undefined))
    \/ UpdateCall("A", [deviceId |-> "B", heading |-> Num(90)])
    \/ DeleteDevice("A")
    \/ GetProximity
    \/ SensorUpdate(Packet("A", Vec(0, 0, 10), Fix("A")))
    \/ PruneTimer

SpecStore == InitStore /\ [][NextStore]_vars

\* the persisted store: updates, removals and alerts of one device, the prune
\* timer and restarts of the process, on a file system that may fail
NextDisk ==
    \/ \E dt \in Steps : Tick(dt)
    \/ PostExternalUpdate(RestBody("A", Fix("A")))
    \/ SensorUpdate(Packet("A", Vec(0, 0, 10), Undefined))
    \/ DeleteDevice("A")
    \/ AddAlert("A", NextAlertFor("A"))
    \/ PruneTimer
    \/ Restart

SpecDisk == InitDisk /\ [][NextDisk]_vars

\* the alerts ring: one registered device, one that never is
NextRing ==
    \/ PostRegister([deviceId |-> "A", isBaseStation |-> Undefined,
                     knownPosition |-> Undefined])
    \/ \E d \in Devs : AddAlert(d, NextAlertFor(d))
    \/ DeleteDevice("A")

SpecRing == InitRing /\ [][NextRing]_vars

\* ---------------------------------------------------------------------------
\* Properties
\* ---------------------------------------------------------------------------
PairOf(e) == {e.deviceA, e.deviceB}

\* the proximity alerts (or scan events) of one unordered pair
OfPair(items, p) == SelectSeq(items, LAMBDA a : "deviceA" \in DOMAIN a /\ PairOf(a) = p)

\* the handlers that run scanProximity()
ScanOps == {"sensor:update", "rest:proximity"}

Min(a, b) == IF a < b THEN a ELSE b

\* C1: every shouldEmit call returns true exactly when its key had no entry or
\* more than DEDUP_WINDOW_MS has passed since the last call that returned true
\* for the key; a true result stores the time of the call under the key, a
\* false result leaves the table as it was.
C1_ShouldEmitOncePerWindow ==
    \A i \in 1..Len(lastOp.calls) :
        LET c == lastOp.calls[i]
        IN  /\ c.emit <=> ( \/ ~c.had
                            \/ /\ IsNum(c.prevTrue)
                               /\ c.at - c.prevTrue.n > DEDUP_WINDOW_MS )
            /\ c.emit => c.entryAfter = Num(c.at)
            /\ ~c.emit => c.unchanged

\* a key that still has its entry is emitted again, its window being over
C1_Witness ==
    \E i \in 1..Len(lastOp.calls) : lastOp.calls[i].had /\ lastOp.calls[i].emit

\* C2: after a prune sweep that runs at t, no device whose last update was at
\* t0 with t > t0 + DEVICE_TTL_MS (30000 ms) is left in the store.
C2_StaleAbsentAfterPrune ==
    lastOp.op = "prune" =>
        \A i \in 1..Len(devices) :
            ~(lastOp.at > devices[i].lastUpdated.n + 30000)

\* a prune sweep has removed a device
C2_Witness == lastOp.op = "prune" /\ lastOp.removed # {}

\* C3: each of the three smoothing buffers of a device has length
\* min(samples_seen, W), W = 5, where samples_seen counts the packets fused for
\* the device since its buffers were created.
C3_BufferLength ==
    \A d \in DOMAIN smoothingBuffers :
        \A axis \in {"accel", "gyro", "mag"} :
            Len(smoothingBuffers[d][axis]) = Min(samplesSeen[d], W.n)

\* the distance of the stored devices i and j
StoredDistance(i, j) == distanceBetween(devices[i], devices[j])

\* C4: scanProximity() returns no pair at 5.0 m or more, and every pair it
\* returns is a 'collision' exactly when its distance is below 2.0 m and a
\* 'warning' otherwise.
C4_ScanSound ==
    lastOp.op \in ScanOps =>
        /\ \A k \in 1..Len(lastOp.scan) :
              LET e     == lastOp.scan[k]
                  distM == distanceBetween(Get(devices, e.deviceA),
                                           Get(devices, e.deviceB))
              IN  /\ JsLt(distM, WarningDistance)
                  /\ e.severity = IF JsLt(distM, CollisionDistance)
                                  THEN "collision" ELSE "warning"
        /\ \A i, j \in 1..Len(devices) :
              (i < j /\ IsNum(StoredDistance(i, j))
                     /\ ~JsLt(StoredDistance(i, j), WarningDistance)) =>
                  OfPair(lastOp.scan, {devices[i].deviceId, devices[j].deviceId}) = << >>

\* a scan has run over a store that holds two devices 10 m apart
C4_Witness ==
    /\ lastOp.op \in ScanOps
    /\ \E i, j \in 1..Len(devices) :
          /\ i < j
          /\ IsNum(StoredDistance(i, j))
          /\ ~JsLt(StoredDistance(i, j), WarningDistance)

\* C5: scanProximity() returns exactly one event for every unordered pair of
\* stored devices less than 5.0 m apart, and the first packet processed while
\* such a pair has not been alerted yet produces exactly one alert for it.
C5_ScanComplete ==
    lastOp.op \in ScanOps =>
        \A i, j \in 1..Len(devices) :
            (i < j /\ JsLt(StoredDistance(i, j), WarningDistance)) =>
                LET p == {devices[i].deviceId, devices[j].deviceId}
                IN  /\ Len(OfPair(lastOp.scan, p)) = 1
                    /\ (lastOp.op = "sensor:update" /\ p \notin DOMAIN lastOp.pairs)
                           => Len(OfPair(lastOp.alerts, p)) = 1

\* the SPEED_EXCEEDED alerts among alerts
SpeedAlertsIn(alerts) == SelectSeq(alerts, LAMBDA a : a.type = "SPEED_EXCEEDED")

\* C6: a packet causes a SPEED_EXCEEDED alert only if the speed stored for its
\* device is above 15 m/s, and then at most one, and none within
\* DEDUP_WINDOW_MS of the device's previous speed alert.
C6_SpeedAlertOnlyAboveLimit ==
    lastOp.op = "sensor:update" =>
        /\ Len(SpeedAlertsIn(lastOp.alerts)) <= 1
        /\ SpeedAlertsIn(lastOp.alerts) # << >> =>
              /\ JsGt(Get(devices, lastOp.deviceId).speedMps, MaxSafeSpeed)
              /\ \A i \in 1..Len(lastOp.calls) :
                    LET c == lastOp.calls[i]
                    IN  (c.key = SpeedKey(lastOp.deviceId) /\ IsNum(c.prevTrue))
                            => c.at - c.prevTrue.n > DEDUP_WINDOW_MS

\* C7: the alerts of one unordered pair share one dedup bucket whatever their
\* severity: a scan result for a pair alerted no more than DEDUP_WINDOW_MS ago
\* yields no alert for it, and any other yields exactly one, of the severity the
\* pair has now (collision: COLLISION_WARNING, otherwise PROXIMITY_WARNING).
C7_OneBucketPerPair ==
    lastOp.op = "buildProximityAlerts" =>
        \A i \in 1..Len(lastOp.scan) :
            LET e   == lastOp.scan[i]
                p   == PairOf(e)
                got == OfPair(lastOp.alerts, p)
            IN  IF p \in DOMAIN lastOp.pairs
                   /\ lastOp.at <= lastOp.pairs[p].at + DEDUP_WINDOW_MS
                THEN got = << >>
                ELSE /\ Len(got) = 1
                     /\ got[1].severity = e.severity
                     /\ got[1].type = IF e.severity = "collision"
                                      THEN "COLLISION_WARNING" ELSE "PROXIMITY_WARNING"

\* a pair alerted as a warning has become a collision, and its window is over:
\* the scan result is alerted as a collision
C7_Witness ==
    /\ lastOp.op = "buildProximityAlerts"
    /\ \E i \in 1..Len(lastOp.scan) :
          LET e == lastOp.scan[i]
              p == PairOf(e)
          IN  /\ p \in DOMAIN lastOp.pairs
              /\ lastOp.pairs[p].severity = "warning"
              /\ e.severity = "collision"
              /\ lastOp.at > lastOp.pairs[p].at + DEDUP_WINDOW_MS
              /\ OfPair(lastOp.alerts, p) # << >>

\* C8: a packet whose fused confidence is below 0.6 sets shouldUseGPS, and if
\* it carries a GPS fix the stored (lat, lng) is that fix.
C8_LowConfidenceUsesGps ==
    (lastOp.op = "sensor:update" /\ JsLt(lastOp.conf, ConfidenceThreshold)) =>
        /\ lastOp.useGps
        /\ lastOp.gps # Undefined =>
              /\ Get(devices, lastOp.deviceId).lat = lastOp.gps.lat
              /\ Get(devices, lastOp.deviceId).lng = lastOp.gps.lng

IsSpeedAlertEvent(ev) == ev.event = "alert" /\ ev.alert.type = "SPEED_EXCEEDED"

IsProximityAlertEvent(ev) == ev.event = "alert" /\ ev.alert.type # "SPEED_EXCEEDED"

\* what one packet may emit: first one position:update carrying the stored
\* state, then alerts only, no proximity alert behind a speed alert, at most
\* one speed alert
PacketEventsInOrder(evs, deviceState) ==
    /\ Len(evs) >= 1
    /\ evs[1].event = "position:update"
    /\ evs[1].deviceId = deviceState.deviceId
    /\ evs[1].lat = deviceState.lat
    /\ evs[1].lng = deviceState.lng
    /\ evs[1].timestamp = deviceState.lastUpdate
    /\ \A i \in 2..Len(evs) : evs[i].event = "alert"
    /\ \A i, j \in 2..Len(evs) :
          i < j => ~(IsSpeedAlertEvent(evs[i]) /\ IsProximityAlertEvent(evs[j]))
    /\ Cardinality({ i \in 1..Len(evs) : IsSpeedAlertEvent(evs[i]) }) <= 1

\* proximity alerts for the handler to emit: none, one, two
SampleProximityAlerts ==
    { << >>,
      << ProximityAlert(ScanEvent("A", "B", "warning")) >>,
      << ProximityAlert(ScanEvent("A", "B", "warning")),
         ProximityAlert(ScanEvent("A", "C", "collision")) >> }

\* C9: an accepted packet emits exactly one position:update, for its device
\* and carrying the state the store holds after the update, before any alert;
\* its proximity alerts come before its speed alert, and there is at most one
\* speed alert.  The second conjunct states the same of the handler's emission
\* steps for every sample of proximity alerts, with and without a speed alert.
C9_PositionThenAlerts ==
    lastOp.op = "sensor:update" =>
        LET deviceState == Get(devices, lastOp.deviceId)
        IN  /\ PacketEventsInOrder(emitted, deviceState)
            /\ Len(emitted) = 1 + Len(lastOp.alerts)
            /\ \A pa \in SampleProximityAlerts :
                  \A sa \in { << >>, << SpeedAlert(deviceState) >> } :
                      /\ PacketEventsInOrder(HandlerEvents(<< >>, deviceState, pa, sa),
                                             deviceState)
                      /\ Len(HandlerEvents(<< >>, deviceState, pa, sa))
                             = 1 + Len(pa) + Len(sa)

\* a packet has emitted its position:update and then an alert
C9_Witness ==
    /\ lastOp.op = "sensor:update"
    /\ Len(emitted) >= 2
    /\ emitted[2].event = "alert"

\* the position:update broadcasts of one device, in emission order
PositionsOf(stream, d) ==
    SelectSeq(stream, LAMBDA ev : ev.event = "position:update" /\ ev.deviceId = d)

\* C10: for each device, the k-th position:update broadcast carries the state
\* its k-th accepted packet produced, and the timestamps of its broadcasts
\* never decrease.
C10_BroadcastsInArrivalOrder ==
    \A d \in Devs :
        LET ps == PositionsOf(outbox, d)
        IN  /\ Len(ps) = Len(accepted[d])
            /\ \A k \in 1..Len(ps) : ps[k] = PositionEvent(accepted[d][k])
            /\ \A k \in 1..(Len(ps) - 1) : ps[k].timestamp.n <= ps[k + 1].timestamp.n

\* two packets of A with different outcomes, and a packet of B among them
C10_Witness ==
    /\ Len(accepted["A"]) >= 2
    /\ accepted["A"][1] # accepted["A"][2]
    /\ Len(accepted["B"]) >= 1

\* a step of the 'disconnect' handler
DisconnectStep == ops' = ops - 1 /\ lastOp'.op = "disconnect"

\* C11: a disconnect of a subscriber bound to a deviceId leaves the device out
\* of the store and without smoothing buffers, and broadcasts exactly one
\* device:left event carrying the deviceId; a disconnect of a subscriber bound
\* to no deviceId changes nothing and emits nothing.
C11_DisconnectTearsDown ==
    [][ DisconnectStep =>
            IF lastOp'.deviceId # NoId
            THEN /\ ~Has(devices', lastOp'.deviceId)
                 /\ lastOp'.deviceId \notin DOMAIN smoothingBuffers'
                 /\ outbox' = Append(outbox, [ event    |-> "device:left",
                                               deviceId |-> lastOp'.deviceId ])
            ELSE UNCHANGED << devices, smoothingBuffers, recentAlerts, outbox >> ]_vars

\* a subscriber bound to a device that is in the store and has buffers has
\* disconnected
C11_Witness ==
    /\ lastOp.op = "disconnect"
    /\ lastOp.deviceId # NoId
    /\ Len(accepted[lastOp.deviceId]) > 0
    /\ Len(emitted) = 1
    /\ ~Has(devices, lastOp.deviceId)

\* a step of the 'sensor:update' handler that does not accept its packet
RejectedPacketStep == ops' = ops - 1 /\ lastOp'.op \in {"sensor:drop", "sensor:throw"}

\* C12: a packet that is not accepted (no deviceId, or a sensor vector that is
\* missing) is dropped silently: the store, the smoothing buffers and the dedup
\* table are unchanged by it and no event is emitted.
C12_MalformedDropped ==
    [][ RejectedPacketStep =>
            UNCHANGED << devices, smoothingBuffers, recentAlerts, outbox >> ]_vars

\* C13: no handler ends by throwing to its caller, whatever its payload.
C13_NothingThrows == ~lastOp.threw

\* the handlers that write a device's state to the store
UpdateOps == { "sensor:update", "rest:update", "rest:register" }

\* C14: after a sensor packet, a REST update or a register call for a device,
\* the stored lastUpdate of that device is the time of that update.
C14_LastUpdateIsLatest ==
    lastOp.op \in UpdateOps =>
        /\ Has(devices, lastOp.deviceId)
        /\ Get(devices, lastOp.deviceId).lastUpdate = Num(lastOp.at)

\* a handler that called deviceStore.update has just run
StoreUpdateStep == ops' = ops - 1 /\ lastOp'.op \in UpdateOps

\* the fields deviceStore.update leaves to the entry and its patch
MergedFields == Fields \ { "deviceId", "lastUpdated" }

\* C15: deviceStore.update(id, patch) is a shallow merge: a field the patch
\* names takes the patch's value, any other field keeps the value of the
\* existing entry (of { deviceId, alerts: [] } when there was none), the merged
\* entry is what the caller gets back, and no other device's entry changes.
C15_UpdateIsShallowMerge ==
    [][ StoreUpdateStep =>
            /\ Has(devices', lastOp'.deviceId)
            /\ \A f \in MergedFields :
                   Get(devices', lastOp'.deviceId)[f] =
                       IF f \in DOMAIN lastOp'.patch THEN lastOp'.patch[f]
                       ELSE IF Has(devices, lastOp'.deviceId)
                            THEN Get(devices, lastOp'.deviceId)[f]
                       ELSE IF f = "alerts" THEN << >> ELSE Undefined
            /\ Get(devices', lastOp'.deviceId).deviceId = lastOp'.deviceId
            /\ lastOp'.op = "sensor:update" =>
                   /\ Len(accepted'[lastOp'.deviceId]) > 0
                   /\ accepted'[lastOp'.deviceId][Len(accepted'[lastOp'.deviceId])]
                          = Get(devices', lastOp'.deviceId)
            /\ \A d \in Devs \ { lastOp'.deviceId } :
                   /\ Has(devices', d) <=> Has(devices, d)
                   /\ Has(devices, d) => Get(devices', d) = Get(devices, d) ]_vars

\* a register call has just merged its three fields over an entry that a
\* position update had filled
C15_Witness ==
    /\ lastOp.op = "rest:register"
    /\ ~lastOp.fresh
    /\ IsNum(Get(devices, lastOp.deviceId).lat)
    /\ Get(devices, lastOp.deviceId).position = lastOp.patch.position

\* C16: every stored heading is in [0, 360), every stored confidence in [0, 1]
\* and every stored speedMps is at least 0, whichever handler wrote the entry
\* (a field the entry does not have yet is not constrained).
C16_StoredValuesInRange ==
    \A i \in 1..Len(devices) :
        /\ devices[i].heading # Undefined =>
               JsLe(Num(0), devices[i].heading) /\ JsLt(devices[i].heading, Num(360))
        /\ devices[i].confidence # Undefined =>
               JsLe(Num(0), devices[i].confidence) /\ JsLe(devices[i].confidence, Num(1))
        /\ devices[i].speedMps # Undefined =>
               JsLe(Num(0), devices[i].speedMps)

\* C17: between handlers a device has smoothing buffers only while it is
\* present in the store.
C17_BuffersOnlyForPresent ==
    \A d \in DOMAIN smoothingBuffers : Has(devices, d)

\* C18: a packet of a device the store does not hold (never seen, or pruned
\* since) is fused from empty smoothing buffers: afterwards each buffer holds
\* that one sample and the confidence is 0.5.
C18_ReappearsFresh ==
    lastOp.op = "sensor:update" /\ lastOp.fresh =>
        /\ lastOp.conf = Frac(1, 2)
        /\ Len(smoothingBuffers[lastOp.deviceId].accel) = 1
        /\ Len(smoothingBuffers[lastOp.deviceId].gyro) = 1
        /\ Len(smoothingBuffers[lastOp.deviceId].mag) = 1

\* the entry is flagged as a base station and carries a known position
AnchoredBaseStation(e) ==
    e.isBaseStation = JsTrue /\ e.position \notin { Undefined, Null }

\* C19: a base station registered with a known position leaves the store only
\* by an explicit remove or by its disconnect, never by the TTL prune.
C19_BaseStationNotPruned ==
    [][ \A i \in 1..Len(devices) :
            AnchoredBaseStation(devices[i]) /\ ~Has(devices', devices[i].deviceId)
                => lastOp'.op \in { "rest:delete", "disconnect" } ]_vars

\* the stored entry of deviceId is flagged as a base station
IsBaseStation(deviceId) ==
    Has(devices, deviceId) /\ Get(devices, deviceId).isBaseStation = JsTrue

C21_RegisterUpserts ==
    lastOp.op \in { "register", "rest:register" } =>
        /\ Has(devices, lastOp.deviceId)
        /\ lastOp.op = "rest:register" =>
               Get(devices, lastOp.deviceId).isBaseStation = lastOp.patch.isBaseStation

\* the store a fresh process holds at time t after loading the snapshot a
\* save of devs wrote
RoundTrip(devs, t) ==
    LoadFromDisk(SaveToDisk(Absent, Absent, devs, t, "none").info, t, "none").devices

\* the two entries agree in every field but the timestamps of the last update
SameButTimestamp(a, b) ==
    \A f \in Fields \ { "lastUpdated", "lastUpdate" } : a[f] = b[f]

\* C22: saving the store and loading the snapshot into a fresh store gives the
\* same devices, in the same order, with the same field values apart from the
\* refreshed timestamp.
C22_SnapshotRoundTrip ==
    /\ Len(RoundTrip(devices, now)) = Len(devices)
    /\ \A i \in 1..Len(devices) :
           SameButTimestamp(RoundTrip(devices, now)[i], devices[i])

\* C23: a restart stamps every loaded device with the startup time, and no
\* prune sweep that runs within DEVICE_TTL_MS of the startup removes a device.
C23_LoadedNotPruned ==
    /\ lastOp.op = "restart" =>
           \A i \in 1..Len(devices) : devices[i].lastUpdated = Num(startedAt)
    /\ lastOp.op = "prune" /\ lastOp.at - startedAt <= DEVICE_TTL_MS.n =>
           lastOp.removed = {}

\* a sweep has just run within DEVICE_TTL_MS of a restart over a loaded device
\* whose position was last updated more than DEVICE_TTL_MS ago
C23_Witness ==
    /\ lastOp.op = "prune"
    /\ startedAt > 1
    /\ lastOp.at - startedAt <= DEVICE_TTL_MS.n
    /\ \E i \in 1..Len(devices) :
           /\ IsNum(devices[i].lastUpdate)
           /\ JsLt(devices[i].lastUpdate, Num(lastOp.at - DEVICE_TTL_MS.n))
           /\ devices[i].lastUpdated = Num(startedAt)

\* the store's mutating operations, as their callers name them
MutationOps ==
    { "sensor:update", "rest:update", "rest:register", "rest:delete", "disconnect",
      "prune", "store:addAlert" }

\* one of them has just changed the map
MutationStep == lastOp'.op \in MutationOps /\ devices' # devices

\* C24: when a mutation of the store has completed and its save met no I/O
\* failure, the snapshot file holds exactly the serialization of the devices
\* in memory.
C24_SnapshotFollowsMutation ==
    [][ MutationStep /\ lastSave'.fault = "none" =>
            /\ infoFile'.k = "snapshot"
            /\ infoFile'.devices = Snapshot(devices', now').devices ]_vars

\* C25: the file at the snapshot's path is always absent or one complete
\* snapshot; whenever it changes it becomes the complete serialization of the
\* store at that moment, so a save that fails leaves the previous snapshot in
\* place; and a restart restores exactly the devices of the file it finds.
C25_SnapshotAtomic ==
    /\ [](infoFile.k \in { "absent", "snapshot" })
    /\ [][ infoFile' # infoFile => infoFile' = Snapshot(devices', now') ]_vars
    /\ [][ ops' = ops - 1 /\ lastOp'.op = "restart" /\ lastSave'.fault # "read" =>
               IF infoFile = Absent THEN devices' = << >>
               ELSE /\ Len(devices') = Len(infoFile.devices)
                    /\ \A i \in 1..Len(devices') :
                           SameButTimestamp(devices'[i], infoFile.devices[i]) ]_vars

\* a save has just failed after it began the temp file, and the snapshot's
\* path still holds an earlier complete snapshot that differs from memory
C25_Witness ==
    /\ lastSave.fault \in { "write", "rename" }
    /\ tmpFile # Absent
    /\ infoFile.k = "snapshot"
    /\ infoFile.devices # Snapshot(devices, now).devices

\* C26: when the file system fails under a save or a load, no exception
\* reaches the caller and the change is in memory all the same: an update's
\* entry is stored with the values of its patch, a removed device is gone, a
\* sweep leaves no stale entry, and a constructor whose read failed holds an
\* empty map.
C26_FaultNotFatal ==
    lastSave.fault # "none" =>
        /\ ~lastSave.threw
        /\ ~lastOp.threw
        /\ lastOp.op \in { "sensor:update", "rest:update" } =>
               /\ Has(devices, lastOp.deviceId)
               /\ Get(devices, lastOp.deviceId).lastUpdated = Num(lastOp.at)
               /\ \A f \in DOMAIN lastOp.patch \cap MergedFields :
                      Get(devices, lastOp.deviceId)[f] = lastOp.patch[f]
        /\ lastOp.op = "rest:delete" => ~Has(devices, lastOp.deviceId)
        /\ lastOp.op = "prune" =>
               \A i \in 1..Len(devices) :
                   ~JsLt(devices[i].lastUpdated, Num(lastOp.at - DEVICE_TTL_MS.n))
        /\ lastOp.op = "restart" /\ lastSave.fault = "read" => devices = << >>

\* the save of a DELETE has just failed: the device is gone from memory while
\* the snapshot still lists it
C26_Witness ==
    /\ lastSave.fault # "none"
    /\ lastOp.op = "rest:delete"
    /\ infoFile.k = "snapshot"
    /\ \E i \in 1..Len(infoFile.devices) : infoFile.devices[i].deviceId = lastOp.deviceId

\* C27: POST /navigation/external/update answers 200 for every body, with or
\* without a deviceId.
C27_ExternalUpdateAlways200 ==
    lastOp.op \in { "rest:update", "rest:reject" } => lastOp.status = 200

\* C28: no alerts ring ever holds more than 50 entries; addAlert on a present
\* device puts the alert first, keeps the earlier entries in their order behind
\* it and drops what lies beyond the 50th; addAlert on an absent device leaves
\* the store as it was.
C28_AlertsRing ==
    /\ [](\A i \in 1..Len(devices) : Len(devices[i].alerts) <= ALERT_RING)
    /\ [][ ops' = ops - 1 /\ lastOp'.op = "store:addAlert" =>
               IF Has(devices, lastOp'.deviceId)
               THEN /\ Has(devices', lastOp'.deviceId)
                    /\ Len(devices') = Len(devices)
                    /\ Get(devices', lastOp'.deviceId).alerts[1] = lastOp'.alerts[1]
                    /\ Len(Get(devices', lastOp'.deviceId).alerts)
                           = Min(Len(Get(devices, lastOp'.deviceId).alerts) + 1, ALERT_RING)
                    /\ \A i \in 2..Len(Get(devices', lastOp'.deviceId).alerts) :
                           Get(devices', lastOp'.deviceId).alerts[i]
                               = Get(devices, lastOp'.deviceId).alerts[i - 1]
               ELSE devices' = devices ]_vars

\* an alert has just been added to a full ring: the oldest entry fell out
C28_Witness ==
    /\ lastOp.op = "store:addAlert"
    /\ Has(devices, lastOp.deviceId)
    /\ Len(Get(devices, lastOp.deviceId).alerts) = ALERT_RING
    /\ Get(devices, lastOp.deviceId).alerts[ALERT_RING].id > 1

\* the store's timer has just run
PruneStep == pruneDue' # pruneDue /\ lastOp'.op = "prune"

\* C29: a prune sweep keeps every device whose last update is at most
\* DEVICE_TTL_MS old.
C29_FreshNotPruned ==
    [][ PruneStep =>
            \A i \in 1..Len(devices) :
                JsLe(JsSub(Num(now), devices[i].lastUpdated), DEVICE_TTL_MS)
                    => Has(devices', devices[i].deviceId) ]_vars

\* a sweep has just kept a device whose last update is exactly DEVICE_TTL_MS old
C29_Witness ==
    /\ lastOp.op = "prune"
    /\ \E i \in 1..Len(devices) :
           devices[i].lastUpdated = Num(lastOp.at - DEVICE_TTL_MS.n)

\* C30: the first packet of a device the store does not hold stores the
\* packet's GPS fix as (lat, lng) when it carries one and (0, 0) otherwise.
C30_FirstPacketPosition ==
    lastOp.op \in { "sensor:update", "rest:update" } /\ lastOp.fresh =>
        /\ Has(devices, lastOp.deviceId)
        /\ Get(devices, lastOp.deviceId).lat
               = IF lastOp.gps # Undefined THEN lastOp.gps.lat ELSE Num(0)
        /\ Get(devices, lastOp.deviceId).lng
               = IF lastOp.gps # Undefined THEN lastOp.gps.lng ELSE Num(0)

\* the numeric fields of a stored entry or of a position:update
NumericFields == { "lat", "lng", "heading", "speedMps" }

\* C31: no lat, lng, heading or speedMps is ever NaN, neither in the store nor
\* in a position:update that was broadcast.
C31_NeverNaN ==
    /\ \A i \in 1..Len(devices) : \A f \in NumericFields : devices[i][f] # NaN
    /\ \A k \in 1..Len(outbox) :
           outbox[k].event = "position:update" =>
               \A f \in NumericFields : outbox[k][f] # NaN

\* C32: the store holds at most one entry per deviceId, and the entry an
\* update wrote is found under the deviceId the update was called with, also
\* when its patch names another deviceId.
C32_DeviceIdIsKey ==
    /\ \A i, j \in 1..Len(devices) :
           devices[i].deviceId = devices[j].deviceId => i = j
    /\ lastOp.op \in UpdateOps \cup { "store:update" } =>
           /\ Has(devices, lastOp.deviceId)
           /\ \A f \in DOMAIN lastOp.patch \cap MergedFields :
                  Get(devices, lastOp.deviceId)[f] = lastOp.patch[f]

\* an update of one device has just been called with a patch that names
\* another device the store holds
C32_Witness ==
    /\ lastOp.op = "store:update"
    /\ lastOp.patch.deviceId # lastOp.deviceId
    /\ Has(devices, lastOp.patch.deviceId)
    /\ Has(devices, lastOp.deviceId)

\* the alert service's timer has just run
SweepStep == sweepDue' # sweepDue /\ lastOp'.op = "sweep"

\* C33 (as the code has it): a sweep evicts exactly the entries older than
\* 2 x DEDUP_WINDOW_MS and leaves the others as they were; an entry older than
\* that is in the table only until the first sweep after it passed that age.
C33_SweepEvictsOld ==
    /\ [][ SweepStep =>
               /\ DOMAIN recentAlerts' =
                      { key \in DOMAIN recentAlerts :
                          now - recentAlerts[key].n <= 2 * DEDUP_WINDOW_MS }
               /\ \A key \in DOMAIN recentAlerts' :
                      recentAlerts'[key] = recentAlerts[key] ]_vars
    /\ [](\A key \in DOMAIN recentAlerts :
             now - recentAlerts[key].n > 2 * DEDUP_WINDOW_MS =>
                 sweepDue - SWEEP_INTERVAL_MS <= recentAlerts[key].n + 2 * DEDUP_WINDOW_MS)

\* a sweep has just evicted an old entry and kept a younger one
C33_Witness ==
    /\ lastOp.op = "sweep"
    /\ lastOp.removed # {}
    /\ DOMAIN recentAlerts # {}

\* C33 (as stated): while no sweep is overdue, no dedup entry is older than two
\* dedup windows.
C33_GoneWithinTwoWindows ==
    now < sweepDue =>
        \A key \in DOMAIN recentAlerts :
            now - recentAlerts[key].n <= 2 * DEDUP_WINDOW_MS

\* what shouldEmit answers for a logged call on a table that is never swept:
\* the table then holds, for each key, the time of its last true result
UnsweptEmit(c) ==
    shouldEmit(IF IsNum(c.prevTrue) THEN (c.key :> c.prevTrue) ELSE << >>,
               c.key, c.at).emit

\* C36: whatever sweeps ran between the calls, every shouldEmit call answers
\* what the same call at the same time answers on a table that is never swept.
C36_SweepTransparent ==
    \A i \in 1..Len(lastOp.calls) :
        lastOp.calls[i].emit = UnsweptEmit(lastOp.calls[i])

\* a call for a key whose entry a sweep has deleted since its last true result
C36_Witness ==
    \E i \in 1..Len(lastOp.calls) :
        /\ ~lastOp.calls[i].had
        /\ IsNum(lastOp.calls[i].prevTrue)
        /\ lastOp.calls[i].emit

\* the devices an alert names
AlertSubjects(alert) ==
    IF alert.type = "SPEED_EXCEEDED" THEN { alert.deviceId }
    ELSE { alert.deviceA, alert.deviceB }

\* the places of the outgoing stream where d is announced as gone
LeftAt(d) ==
    { k \in 1..Len(outbox) :
        outbox[k].event = "device:left" /\ outbox[k].deviceId = d }

\* no packet of d has been processed since place k of the outgoing stream
\* (every processed packet broadcasts its position:update)
QuietSince(d, k) ==
    \A j \in (k + 1)..Len(outbox) :
        ~(outbox[j].event = "position:update" /\ outbox[j].deviceId = d)

\* C34: once a disconnect has removed a device, and until a later packet of
\* that device is processed, the device is not in the store and no alert
\* emitted since names it; the rows a packet's scan returns name only devices
\* that are in the store.
C34_GoneUntilHeardAgain ==
    /\ \A d \in Devs : \A k \in LeftAt(d) :
           QuietSince(d, k) =>
               /\ ~Has(devices, d)
               /\ \A j \in (k + 1)..Len(outbox) :
                      outbox[j].event = "alert" => d \notin AlertSubjects(outbox[j].alert)
    /\ lastOp.op = "sensor:update" =>
           \A i \in 1..Len(lastOp.scan) :
               /\ Has(devices, lastOp.scan[i].deviceA)
               /\ Has(devices, lastOp.scan[i].deviceB)

\* a device that was in the store has left, and since then another device's
\* packet has been processed and has raised an alert
C34_Witness ==
    \E d \in Devs : \E k \in LeftAt(d) :
        /\ QuietSince(d, k)
        /\ \E i \in 1..(k - 1) :
               outbox[i].event = "position:update" /\ outbox[i].deviceId = d
        /\ \E j \in (k + 1)..Len(outbox) : outbox[j].event = "position:update"
        /\ \E j \in (k + 1)..Len(outbox) : outbox[j].event = "alert"

\* a device whose last update is more than DEVICE_TTL_MS before t
Stale(e, t) == JsLt(e.lastUpdated, JsSub(Num(t), DEVICE_TTL_MS))

\* C35: the list getActiveDevices() hands to a request that arrives while the
\* prune timer is not overdue holds no device whose last update is older than
\* DEVICE_TTL_MS at the time of the request.
C35_ActiveListNotStale ==
    (lastOp.op = "rest:proximity" /\ lastOp.at = now /\ now < pruneDue) =>
        \A i \in 1..Len(getActiveDevices(devices)) :
            ~Stale(getActiveDevices(devices)[i], lastOp.at)

\* C37: a proximity event whose key already has an entry concerns a pair that
\* has been alerted before (two events share a key only if they share the
\* pair), and no shouldEmit call for a speed key finds the entry of a
\* proximity key.
C37_KeysInjective ==
    /\ lastOp.op = "buildProximityAlerts" =>
           \A i \in 1..Len(lastOp.scan) :
               lastOp.calls[i].had => PairOf(lastOp.scan[i]) \in DOMAIN lastOp.pairs
    /\ \A a, b, c \in KeyIds :
           SpeedKey(c) # ProximityKey(ScanEvent(a, b, "warning"))

\* C38: when a connection bound to a deviceId closes while another open
\* connection is bound to the same deviceId, the device stays in the store and
\* keeps its smoothing buffers.
C38_SharedDeviceSurvives ==
    [][ ( /\ DisconnectStep
          /\ lastOp'.deviceId # NoId
          /\ \E s \in DOMAIN socketDevice' : socketDevice'[s] = lastOp'.deviceId )
        => /\ Has(devices, lastOp'.deviceId) => Has(devices', lastOp'.deviceId)
           /\ lastOp'.deviceId \in DOMAIN smoothingBuffers =>
                  lastOp'.deviceId \in DOMAIN smoothingBuffers' ]_vars

\* a position update (a packet or a REST update) has just been stored
PositionUpdateStep ==
    ops' = ops - 1 /\ lastOp'.op \in { "sensor:update", "rest:update" }

\* C39: a position update whose payload states no isBaseStation leaves a
\* device stored as a base station a base station.
C39_BaseStationFlagKept ==
    [][ ( /\ PositionUpdateStep
          /\ Nullish(lastOp'.stated)
          /\ IsBaseStation(lastOp'.deviceId) )
        => Get(devices', lastOp'.deviceId).isBaseStation = JsTrue ]_vars


====
